---- MODULE Spec2Model ----
(***************************************************************************)
(* Model of the OAuth2 token lifecycle of pyrevizto.pyRevizto              *)
(* (src/pyrevizto/pyrevizto.py).                                           *)
(*                                                                         *)
(* State: the .env file (durable store), the process environment           *)
(* (os.environ, filled by load_dotenv at construction and read by the two  *)
(* validity predicates), the manager objects of the running process, the   *)
(* wall clock, and a record of the last operation.                         *)
(*                                                                         *)
(* Python values of type Optional[str] are tuples: None is <<>>, a string  *)
(* is a non-empty tuple.                                                   *)
(***************************************************************************)
EXTENDS Integers, Sequences, FiniteSets, TLC

\* ---------------------------------------------------------------- bounds
MaxTime == 4
MaxSerial == 2

\* ------------------------------------------------------ program constants
\* token_validity and refresh_token_validity, in clock units
AccessTTL == 1
RefreshTTL == 3

\* the objects and regions of the single-manager configuration
Managers == {1}
Regions == {"us"}
\* every object slot of the process and every region that has keys in the
\* .env file
AllManagers == {1, 2}
AllRegions == {"us", "eu"}
Fields == {"ACCESS_TOKEN", "ACCESS_TOKEN_TIMESTAMP",
           "REFRESH_TOKEN", "REFRESH_TOKEN_TIMESTAMP"}
Keys == AllRegions \X Fields

\* variant: one set of keys shared by all regions
Key_shared(region, field) == <<"us", field>>

\* the key f"{region}_{field}"
Key(region, field) == <<region, field>>

None == <<>>
\* the n-th opaque token string handed out by the token endpoint
Tok(n) == <<"tok", n>>
\* authorization codes a caller may pass (None included)
Codes == {None, <<"code123">>}

\* datetime.isoformat / datetime.fromisoformat
isoformat(t) == <<"T", t>>
fromisoformat(s) == s[2]

\* set_key writes KEY='value'; load_dotenv parses the line back
Quote(v) == <<"'", v, "'">>
Unquote(l) == l[2]

VARIABLES
    now,        \* datetime.now()
    fileExists, \* os.path.exists(env_path)
    file,       \* the lines of the .env file, by key (<<>> = no such line)
    env,        \* os.environ of the running process, by key (<<>> = unset)
    mgr,        \* the pyRevizto objects of the running process
    serial,     \* number of token pairs the endpoint has issued
    last        \* the most recent operation and what its caller saw

vars == <<now, fileExists, file, env, mgr, serial, last>>

\* ------------------------------------------------------------ environment
\* os.getenv(key)
getenv(e, key) == e[key]

\* load_dotenv(env_path): every key of the file that os.environ does not
\* have yet is set (override=False); existing variables are kept
load_dotenv(e, f) ==
    [k \in Keys |-> IF e[k] # None THEN e[k]
                    ELSE IF f[k] # None THEN Unquote(f[k]) ELSE None]

\* ------------------------------------------------------ validity predicates
_is_refresh_token_valid(e, region, t) ==
    LET refresh_token_timestamp == getenv(e, Key(region, "REFRESH_TOKEN_TIMESTAMP"))
    IN  IF refresh_token_timestamp # None
        THEN t <= fromisoformat(refresh_token_timestamp) + RefreshTTL
        ELSE FALSE

_is_token_valid(e, region, t) ==
    LET access_token_timestamp == getenv(e, Key(region, "ACCESS_TOKEN_TIMESTAMP"))
    IN  IF access_token_timestamp # None
        THEN t <= fromisoformat(access_token_timestamp) + AccessTTL
        ELSE FALSE

\* ------------------------------------------------------------ token endpoint
\* what requests.post does: status 0 stands for a RequestException raised by
\* the transport; a 200 answer carries token_type, access_token, refresh_token
NoResp == [status |-> -1, token_type |-> None, access_token |-> None,
           refresh_token |-> None]
Plain(st) == [status |-> st, token_type |-> None, access_token |-> None,
              refresh_token |-> None]
Statuses == {0, 201, 400, 401, 403, 404, 500}
Responses(n) ==
    {Plain(st) : st \in Statuses}
    \cup {[status |-> 200, token_type |-> <<"MAC">>, access_token |-> None,
           refresh_token |-> None]}
    \cup (IF n < MaxSerial
          THEN {[status |-> 200, token_type |-> <<"Bearer">>,
                 access_token |-> a, refresh_token |-> r] :
                    <<a, r>> \in {<<Tok(n + 1), Tok(n + 1)>>,
                                  <<Tok(n + 1), None>>}}
          ELSE {})

\* clock advance between two readings of datetime.now() inside one call
Ticks == {0, 1}

\* ------------------------------------------------------------- persistence
\* variant: the refresh timestamp is read from the clock before the access
\* timestamp
SaveWrites_refresh_stamped_first(m, t, d) ==
    << <<"ACCESS_TOKEN", m.access_token>>,
       <<"ACCESS_TOKEN_TIMESTAMP", isoformat(t + d)>>,
       <<"REFRESH_TOKEN", m.refresh_token>>,
       <<"REFRESH_TOKEN_TIMESTAMP", isoformat(t)>> >>

\* the four set_key calls of _save_tokens, in order
SaveWrites(m, t, d) ==
    << <<"ACCESS_TOKEN", m.access_token>>,
       <<"ACCESS_TOKEN_TIMESTAMP", isoformat(t)>>,
       <<"REFRESH_TOKEN", m.refresh_token>>,
       <<"REFRESH_TOKEN_TIMESTAMP", isoformat(t + d)>> >>

\* variant: the four fields are written whatever save_token says
_save_tokens_always(m, f, t, d) ==
    LET w == SaveWrites(m, t, d)
        stop == IF w[1][2] = None THEN 1
                ELSE IF w[3][2] = None THEN 3 ELSE 5
        written == {Key(m.region, w[i][1]) : i \in 1 .. (stop - 1)}
        valueOf(k) == LET i == CHOOSE j \in 1 .. 4 : w[j][1] = k[2]
                      IN  Quote(w[i][2])
    IN  [file |-> [k \in Keys |-> IF k \in written THEN valueOf(k) ELSE f[k]],
         exc  |-> IF stop = 5 THEN "none" ELSE "AttributeError",
         tEnd |-> IF stop >= 4 THEN t + d ELSE t]

\* set_key(path, key, None) raises AttributeError before touching the file;
\* the first call that fails ends _save_tokens, the earlier ones stay written
_save_tokens(m, f, t, d) ==
    IF ~m.save_token
    THEN [file |-> f, exc |-> "none", tEnd |-> t]
    ELSE LET w == SaveWrites(m, t, d)
             stop == IF w[1][2] = None THEN 1
                     ELSE IF w[3][2] = None THEN 3 ELSE 5
             written == {Key(m.region, w[i][1]) : i \in 1 .. (stop - 1)}
             valueOf(k) == LET i == CHOOSE j \in 1 .. 4 : w[j][1] = k[2]
                           IN  Quote(w[i][2])
         IN  [file |-> [k \in Keys |-> IF k \in written THEN valueOf(k) ELSE f[k]],
              exc  |-> IF stop = 5 THEN "none" ELSE "AttributeError",
              tEnd |-> IF stop >= 4 THEN t + d ELSE t]

\* ------------------------------------------------------- outcome of a call
Result(m, f, posts, exc, msg, ret, t, ok) ==
    [access_token |-> m.access_token, refresh_token |-> m.refresh_token,
     file |-> f, posts |-> posts, exc |-> exc, msg |-> msg, ret |-> ret,
     tEnd |-> t, ok |-> ok]

Cached(m, f, t) ==
    Result(m, f, <<>>, "none", "", <<m.access_token, m.refresh_token>>, t, FALSE)

_handle_token_response(m, f, resp, t, d) ==
    IF resp.status = 200
    THEN IF resp.token_type = <<"Bearer">>
         THEN LET m2 == [m EXCEPT !.access_token = resp.access_token,
                                  !.refresh_token = resp.refresh_token]
                  s == _save_tokens(m2, f, t, d)
              IN  IF s.exc = "none"
                  THEN Result(m2, s.file, <<>>, "none", "",
                              <<resp.access_token, resp.refresh_token>>,
                              s.tEnd, TRUE)
                  ELSE Result(m2, s.file, <<>>, s.exc, "", <<>>, s.tEnd, FALSE)
         ELSE Result(m, f, <<>>, "PermissionError", "tokens", <<>>, t, FALSE)
    ELSE IF resp.status = 400
    THEN Result(m, f, <<>>, "ValueError", "Invalid request", <<>>, t, FALSE)
    ELSE IF resp.status = 401
    THEN Result(m, f, <<>>, "PermissionError", "Unauthorized", <<>>, t, FALSE)
    ELSE IF resp.status = 403
    THEN Result(m, f, <<>>, "PermissionError", "Forbidden", <<>>, t, FALSE)
    ELSE IF resp.status = 500
    THEN Result(m, f, <<>>, "RuntimeError", "Server error", <<>>, t, FALSE)
    \* response.raise_for_status(): HTTPError from 400 up, else falls
    \* through and the function returns None
    ELSE IF resp.status >= 400
    THEN Result(m, f, <<>>, "HTTPError", "raise_for_status", <<>>, t, FALSE)
    ELSE Result(m, f, <<>>, "none", "", <<>>, t, FALSE)

\* the try/except of both request functions: requests.post raises for a
\* transport failure; HTTPError is a RequestException too, so one raised by
\* _handle_token_response inside the try is caught and wrapped as well
Exchange(m, f, post, wrapmsg, resp, t, d) ==
    IF resp.status = 0
    THEN Result(m, f, <<post>>, "RuntimeError", wrapmsg, <<>>, t, FALSE)
    ELSE LET r == _handle_token_response(m, f, resp, t, d)
         IN  IF r.exc = "HTTPError"
             THEN [r EXCEPT !.posts = <<post>>, !.exc = "RuntimeError",
                            !.msg = wrapmsg]
             ELSE [r EXCEPT !.posts = <<post>>]

\* variant: a missing code is rejected as a token error before any request
_request_new_tokens_code_required(m, f, access_code, resp, t, d) ==
    IF access_code = None
    THEN Result(m, f, <<>>, "TokenError", "No authorization code", <<>>, t, FALSE)
    ELSE Exchange(m, f, [grant_type |-> "authorization_code",
                         cred |-> access_code],
                  "Failed to request new tokens", resp, t, d)

_request_new_tokens(m, f, access_code, resp, t, d) ==
    Exchange(m, f, [grant_type |-> "authorization_code", cred |-> access_code],
             "Failed to request new tokens", resp, t, d)

_request_refresh_token(m, f, resp, t, d) ==
    Exchange(m, f, [grant_type |-> "refresh_token", cred |-> m.refresh_token],
             "Failed to refresh token", resp, t, d)

get_refreshed_token(m, e, f, resp, t, d) ==
    IF _is_token_valid(e, m.region, t)
    THEN Cached(m, f, t)
    ELSE IF _is_refresh_token_valid(e, m.region, t)
    THEN _request_refresh_token(m, f, resp, t, d)
    ELSE Result(m, f, <<>>, "TokenError", "Refresh token is invalid or expired",
                <<>>, t, FALSE)

\* variant: a refresh that fails is followed by an authorization-code
\* exchange inside the same call
get_tokens_fallback(m, e, f, access_code, resp, t, d1, d) ==
    IF _is_token_valid(e, m.region, t)
    THEN Cached(m, f, t)
    ELSE IF _is_refresh_token_valid(e, m.region, t)
    THEN LET r1 == get_refreshed_token(m, e, f, resp, t + d1, d)
             r2 == _request_new_tokens(m, f, access_code, resp, t + d1, d)
         IN  IF r1.exc = "none" THEN r1
             ELSE [r2 EXCEPT !.posts = r1.posts \o r2.posts]
    ELSE _request_new_tokens(m, f, access_code, resp, t, d)

\* d1 is the time that passes between get_tokens' own checks and the checks
\* repeated by get_refreshed_token
get_tokens(m, e, f, access_code, resp, t, d1, d) ==
    IF _is_token_valid(e, m.region, t)
    THEN Cached(m, f, t)
    ELSE IF _is_refresh_token_valid(e, m.region, t)
    THEN get_refreshed_token(m, e, f, resp, t + d1, d)
    ELSE _request_new_tokens(m, f, access_code, resp, t, d)

\* ------------------------------------------------------------------ state
\* xt, xat, xrt remember the last exchange that returned normally to this
\* object's caller: when it happened and the pair it delivered; saving is
\* the position of a thread of this object inside _save_tokens (0 = not
\* inside, i = about to make the i-th set_key call)
NoManager == [alive |-> FALSE, region |-> "us", save_token |-> FALSE,
              access_token |-> None, refresh_token |-> None,
              xt |-> -1, xat |-> None, xrt |-> None, saving |-> 0]

NoCall == [op |-> "none", m |-> 0, code |-> None, posts |-> <<>>,
           resp |-> NoResp, exc |-> "none", msg |-> "", ret |-> <<>>,
           ok |-> FALSE]

Init ==
    /\ now = 0
    /\ fileExists = FALSE
    /\ file = [k \in Keys |-> None]
    /\ env = [k \in Keys |-> None]
    /\ mgr = [m \in AllManagers |-> NoManager]
    /\ serial = 0
    /\ last = NoCall

\* _update_tokens_from_file: the tokens come from os.environ
_update_tokens_from_file(m, e) ==
    [m EXCEPT !.access_token = getenv(e, Key(m.region, "ACCESS_TOKEN")),
              !.refresh_token = getenv(e, Key(m.region, "REFRESH_TOKEN"))]

\* pyRevizto(region, save_token=save): __init__
Construct(m, region, save) ==
    LET e2 == load_dotenv(env, file)
        obj == [NoManager EXCEPT !.alive = TRUE, !.region = region,
                                 !.save_token = save]
    IN  /\ fileExists' = TRUE
        /\ env' = e2
        /\ mgr' = [mgr EXCEPT ![m] = _update_tokens_from_file(obj, e2)]
        /\ last' = [NoCall EXCEPT !.op = "construct", !.m = m]
        /\ UNCHANGED <<now, file, serial>>

\* variant: a successful exchange also puts its timestamps in os.environ
Apply_setenv(m, r) ==
    /\ r.tEnd <= MaxTime
    /\ now' = r.tEnd
    /\ file' = r.file
    /\ mgr' = [mgr EXCEPT ![m] =
                  [@ EXCEPT !.access_token = r.access_token,
                            !.refresh_token = r.refresh_token,
                            !.xt = IF r.ok THEN r.tEnd ELSE @,
                            !.xat = IF r.ok THEN r.access_token ELSE @,
                            !.xrt = IF r.ok THEN r.refresh_token ELSE @]]
    /\ env' = IF r.ok
              THEN [env EXCEPT
                      ![Key(mgr[m].region, "ACCESS_TOKEN_TIMESTAMP")] =
                          isoformat(r.tEnd),
                      ![Key(mgr[m].region, "REFRESH_TOKEN_TIMESTAMP")] =
                          isoformat(r.tEnd)]
              ELSE env
    /\ UNCHANGED fileExists

\* the effect of a finished call on the state
Apply(m, r) ==
    /\ r.tEnd <= MaxTime
    /\ now' = r.tEnd
    /\ file' = r.file
    /\ mgr' = [mgr EXCEPT ![m] =
                  [@ EXCEPT !.access_token = r.access_token,
                            !.refresh_token = r.refresh_token,
                            !.xt = IF r.ok THEN r.tEnd ELSE @,
                            !.xat = IF r.ok THEN r.access_token ELSE @,
                            !.xrt = IF r.ok THEN r.refresh_token ELSE @]]
    /\ UNCHANGED <<env, fileExists>>

Record(m, op, code, resp, r) ==
    [op |-> op, m |-> m, code |-> code, posts |-> r.posts,
     resp |-> resp, exc |-> r.exc, msg |-> r.msg, ret |-> r.ret, ok |-> r.ok]

IsBearer(resp) == resp.status = 200 /\ resp.token_type = <<"Bearer">>

\* the inputs a call can meet: an answer of the endpoint when the call
\* posts, and clock advances between its readings of datetime.now()
RespInputs(posts) == IF posts THEN Responses(serial) ELSE {NoResp}
SaveTicks(m, resp) == IF IsBearer(resp) /\ m.save_token THEN Ticks ELSE {0}
Recheck(m) ==
    IF /\ ~_is_token_valid(env, m.region, now)
       /\ _is_refresh_token_valid(env, m.region, now)
    THEN Ticks ELSE {0}

GetTokens(m, code) ==
    /\ mgr[m].alive
    /\ \E d1 \in Recheck(mgr[m]) :
       \E resp \in RespInputs(get_tokens(mgr[m], env, file, code, Plain(0),
                                         now, d1, 0).posts # <<>>) :
       \E d \in SaveTicks(mgr[m], resp) :
          LET r == get_tokens(mgr[m], env, file, code, resp, now, d1, d)
          IN  /\ Apply(m, r)
              /\ last' = Record(m, "get_tokens", code, resp, r)
              /\ serial' = serial + (IF IsBearer(resp) THEN 1 ELSE 0)

GetRefreshedToken(m) ==
    /\ mgr[m].alive
    /\ \E resp \in RespInputs(get_refreshed_token(mgr[m], env, file, Plain(0),
                                                  now, 0).posts # <<>>) :
       \E d \in SaveTicks(mgr[m], resp) :
          LET r == get_refreshed_token(mgr[m], env, file, resp, now, d)
          IN  /\ Apply(m, r)
              /\ last' = Record(m, "get_refreshed_token", None, resp, r)
              /\ serial' = serial + (IF IsBearer(resp) THEN 1 ELSE 0)

\* time passes between calls
Tick ==
    /\ now < MaxTime
    /\ now' = now + 1
    /\ last' = [NoCall EXCEPT !.op = "tick"]
    /\ UNCHANGED <<fileExists, file, env, mgr, serial>>

\* the process ends and a new one starts: os.environ and the objects are
\* gone, the .env file stays
Restart ==
    /\ \E m \in AllManagers : mgr[m].alive
    /\ env' = [k \in Keys |-> None]
    /\ mgr' = [m \in AllManagers |-> NoManager]
    /\ last' = [NoCall EXCEPT !.op = "restart"]
    /\ UNCHANGED <<now, fileExists, file, serial>>

Next ==
    \/ \E m \in Managers, region \in Regions, save \in BOOLEAN :
          Construct(m, region, save)
    \/ \E m \in Managers, code \in Codes : GetTokens(m, code)
    \/ \E m \in Managers : GetRefreshedToken(m)
    \/ Tick
    \/ Restart

Spec == Init /\ [][Next]_vars

\* ------------------------------------- two objects, two regions, one store
\* the calls of this configuration pass a code, meet an endpoint that answers
\* 401 or 200/Bearer with both tokens, and take no measurable time
PlainCall ==
    /\ now' = now
    /\ last'.resp.status \in {-1, 200, 401}
    /\ last'.resp.status = 200
          => IsBearer(last'.resp) /\ last'.resp.refresh_token # None

\* both objects persist; the first is always made for "us", the second for
\* either region (the slots are interchangeable)
NextTwo ==
    \/ Construct(1, "us", TRUE)
    \/ \E region \in AllRegions : Construct(2, region, TRUE)
    \/ \E m \in AllManagers : GetTokens(m, <<"code123">>) /\ PlainCall
    \/ \E m \in AllManagers : GetRefreshedToken(m) /\ PlainCall
    \/ Tick

SpecTwo == Init /\ [][NextTwo]_vars

\* --------------------------------------- two threads inside _save_tokens
\* get_tokens or get_refreshed_token of m up to the entry of _save_tokens:
\* the call has posted, the answer is 200/Bearer and the tokens are assigned
StartExchange(m) ==
    /\ mgr[m].alive /\ mgr[m].save_token /\ mgr[m].saving = 0
    /\ ~_is_token_valid(env, mgr[m].region, now)
    /\ serial < MaxSerial
    /\ mgr' = [mgr EXCEPT ![m] = [@ EXCEPT !.access_token = Tok(serial + 1),
                                           !.refresh_token = Tok(serial + 1),
                                           !.saving = 1]]
    /\ serial' = serial + 1
    /\ last' = [NoCall EXCEPT !.op = "post", !.m = m]
    /\ UNCHANGED <<now, fileExists, file, env>>

\* the next set_key call of the thread of m; after the fourth the call
\* returns the pair to its caller
SetKeyStep(m) ==
    LET i == mgr[m].saving
        w == SaveWrites(mgr[m], now, 0)[i]
    IN  /\ i \in 1 .. 4
        /\ file' = [file EXCEPT ![Key(mgr[m].region, w[1])] = Quote(w[2])]
        /\ mgr' = [mgr EXCEPT ![m] =
                      IF i < 4 THEN [@ EXCEPT !.saving = i + 1]
                      ELSE [@ EXCEPT !.saving = 0, !.xt = now,
                                     !.xat = mgr[m].access_token,
                                     !.xrt = mgr[m].refresh_token]]
        /\ last' = [NoCall EXCEPT !.op = "set_key", !.m = m, !.ok = (i = 4)]
        /\ UNCHANGED <<now, fileExists, env, serial>>

NextConc ==
    \/ \E m \in AllManagers : ~mgr[m].alive /\ Construct(m, "us", TRUE)
    \/ \E m \in AllManagers : StartExchange(m)
    \/ \E m \in AllManagers : SetKeyStep(m)
    \/ Tick

SpecConc == Init /\ [][NextConc]_vars

\* ---------------------------- constructions and completed exchanges only
\* the call was not cut short inside _save_tokens, which would leave the
\* store with a part of the record
SaveCompleted == last'.exc # "AttributeError"

NextDone ==
    \/ \E m \in Managers, region \in Regions, save \in BOOLEAN :
          Construct(m, region, save)
    \/ \E m \in Managers, code \in Codes : GetTokens(m, code) /\ SaveCompleted
    \/ \E m \in Managers : GetRefreshedToken(m) /\ SaveCompleted
    \/ Tick
    \/ Restart

SpecDone == Init /\ [][NextDone]_vars

\* ----------------------------------------------------------------- claims
\* manager m holds a pair it obtained by an exchange of its own, at xt
Obtained(m) ==
    mgr[m].alive /\ mgr[m].xt # -1 /\ mgr[m].xat # None /\ mgr[m].xrt # None

ATS(m) == Key(mgr[m].region, "ACCESS_TOKEN_TIMESTAMP")
RTS(m) == Key(mgr[m].region, "REFRESH_TOKEN_TIMESTAMP")

\* the manager's own judgement, as get_tokens makes it
AccessJudgedValid(m) == _is_token_valid(env, mgr[m].region, now)
RefreshJudgedValid(m) == _is_refresh_token_valid(env, mgr[m].region, now)

AuthCodePost(code) == [grant_type |-> "authorization_code", cred |-> code]
IsCall(c) == c.op \in {"get_tokens", "get_refreshed_token"}

\* the step is a call of get_tokens(code), or of get_refreshed_token, on
\* manager m: every other action overwrites the record with its own name
GetTokensStep(m, code) ==
    last'.op = "get_tokens" /\ last'.m = m /\ last'.code = code
GetRefreshedTokenStep(m) ==
    last'.op = "get_refreshed_token" /\ last'.m = m

\* C1: after a successful exchange at t0 = xt, every get_tokens call of the
\* same manager at a time now with now - t0 < access_ttl makes no POST and
\* returns the pair obtained at t0.
C1_CachedWithinAccessTTL ==
    [][\A m \in Managers, code \in Codes :
          (GetTokensStep(m, code) /\ Obtained(m) /\ now - mgr[m].xt < AccessTTL)
          => /\ last'.posts = <<>>
             /\ last'.exc = "none"
             /\ last'.ret = <<mgr[m].xat, mgr[m].xrt>>]_vars

\* C2: for tokens last obtained at t0 = xt, a get_tokens call at a time now
\* with access_ttl <= now - t0 < refresh_ttl makes exactly one POST, a
\* refresh grant; on 200/Bearer it returns the new access token and the
\* access token is judged valid afterwards (ACCESS_VALID).
C2_RefreshWithinRefreshTTL ==
    [][\A m \in Managers, code \in Codes :
          (/\ GetTokensStep(m, code)
           /\ Obtained(m)
           /\ AccessTTL <= now - mgr[m].xt
           /\ now - mgr[m].xt < RefreshTTL)
          => /\ Len(last'.posts) = 1
             /\ last'.posts[1].grant_type = "refresh_token"
             /\ IsBearer(last'.resp)
                   => /\ last'.exc = "none"
                      /\ last'.ret = <<last'.resp.access_token,
                                       last'.resp.refresh_token>>
                      /\ _is_token_valid(env', mgr[m].region, now')]_vars

C4_NewTokensReachAccessValid ==
    [][\A m \in Managers, code \in Codes \ {None} :
          (GetTokensStep(m, code) /\ ~AccessJudgedValid(m) /\ ~RefreshJudgedValid(m))
          => /\ last'.posts = <<AuthCodePost(code)>>
             /\ (IsBearer(last'.resp) /\ last'.exc = "none")
                   => /\ last'.ret = <<last'.resp.access_token,
                                       last'.resp.refresh_token>>
                      /\ _is_token_valid(env', mgr[m].region, now')]_vars

\* C5: in every reachable state the issuance timestamps a manager uses for
\* its validity checks are those of the tokens it holds: once an exchange
\* at xt has given the manager its tokens, both timestamps read by the
\* predicates were stamped during that exchange.
C5_TimestampsBelongToTokens ==
    \A m \in Managers :
        Obtained(m)
        => /\ env[ATS(m)] # None
           /\ env[RTS(m)] # None
           /\ fromisoformat(env[ATS(m)]) \in {mgr[m].xt - 1, mgr[m].xt}
           /\ fromisoformat(env[RTS(m)]) = mgr[m].xt

\* C6: a call that ends in a failure leaves the in-memory tokens, the
\* timestamps and the persisted fields as they were before the call.
C6_FailureChangesNothing ==
    [][\A m \in Managers :
          (/\ \/ \E code \in Codes : GetTokensStep(m, code)
              \/ GetRefreshedTokenStep(m)
           /\ last'.exc # "none")
          => /\ mgr'[m].access_token = mgr[m].access_token
             /\ mgr'[m].refresh_token = mgr[m].refresh_token
             /\ env' = env
             /\ file' = file]_vars

\* an answer that is a failure of the exchange
FailedExchange(c) ==
    /\ c.posts # <<>>
    /\ \/ c.resp.status \in {0, 400, 401, 403, 404, 500}
       \/ c.resp.status = 200 /\ ~IsBearer(c.resp)

C8_RefreshNeverFallsBack ==
    [][\A m \in Managers :
          GetRefreshedTokenStep(m)
          => /\ \A i \in 1 .. Len(last'.posts) :
                   last'.posts[i].grant_type # "authorization_code"
             /\ (/\ ~AccessJudgedValid(m)
                 /\ \/ mgr[m].refresh_token = None
                    \/ ~RefreshJudgedValid(m))
                => /\ last'.exc = "TokenError"
                   /\ last'.posts = <<>>
                   /\ mgr' = mgr /\ env' = env /\ file' = file]_vars

\* C9: two get_refreshed_token calls in immediate succession after a
\* successful exchange, both inside the access TTL, return the same pair,
\* make no POST and change no state. (last is the first call, which was not
\* itself the exchange; the step is the second call.)
C9_RefreshedTokenIdempotent ==
    [][\A m \in Managers :
          (/\ GetRefreshedTokenStep(m)
           /\ last.op = "get_refreshed_token" /\ last.m = m /\ ~last.ok
           /\ Obtained(m) /\ now - mgr[m].xt < AccessTTL)
          => /\ last.exc = "none" /\ last'.exc = "none"
             /\ last'.ret = last.ret
             /\ last.posts = <<>> /\ last'.posts = <<>>
             /\ mgr' = mgr /\ env' = env /\ file' = file]_vars

\* the row of the status table an answer falls in
Kind(resp) ==
    IF resp.status = 0 THEN "transport"
    ELSE IF resp.status = 200
    THEN (IF resp.token_type = <<"Bearer">> THEN "success" ELSE "permission")
    ELSE IF resp.status = 400 THEN "validation"
    ELSE IF resp.status \in {401, 403} THEN "permission"
    ELSE IF resp.status = 500 THEN "transient"
    ELSE "other"

\* C10: the outcome of an exchange is a function of (status, token_type)
\* alone and follows the table (200/Bearer succeeds, the error rows fail),
\* and exchanges that fall in different rows of the table end in outcomes
\* the caller can tell apart by the exception raised.
C10_OutcomeByStatus ==
    [][(/\ IsCall(last) /\ last.posts # <<>>
        /\ IsCall(last') /\ last'.posts # <<>>
        /\ vars' # vars)
       => /\ (Kind(last'.resp) = "success") => last'.exc = "none"
          /\ FailedExchange(last') => last'.exc # "none"
          /\ (Kind(last.resp) = Kind(last'.resp)) <=> (last.exc = last'.exc)]_vars

\* the step is a call on manager m, of either operation
CallStep(m) == IsCall(last') /\ last'.m = m

\* C11: a call whose POST is answered with an HTTP status other than 200,
\* 400, 401, 403 and 500 (2xx and 3xx codes included) never returns
\* normally: it ends in a failure.
C11_OtherStatusFails ==
    [][\A m \in Managers :
          (/\ CallStep(m)
           /\ last'.posts # <<>>
           /\ last'.resp.status \notin {0, 200, 400, 401, 403, 500})
          => last'.exc # "none"]_vars

\* a line of the .env file holds a timestamp taken between t1 and t2
StampedBetween(l, t1, t2) == \E t \in t1 .. t2 : l = Quote(isoformat(t))

\* C12: a call of a persisting manager that ends in a successful exchange
\* leaves the four fields of its region in the store, the two token fields
\* equal to the tokens the manager holds and the two timestamps taken during
\* the call, and changes no other field; no operation of a manager that does
\* not persist (construction or call) changes any field of the store.
C12_PersistenceWritesFourFields ==
    [][\A m \in AllManagers :
          /\ (CallStep(m) /\ last'.ok /\ mgr[m].save_token)
                => /\ file'[Key(mgr[m].region, "ACCESS_TOKEN")]
                         = Quote(mgr'[m].access_token)
                   /\ file'[Key(mgr[m].region, "REFRESH_TOKEN")]
                         = Quote(mgr'[m].refresh_token)
                   /\ StampedBetween(file'[ATS(m)], now, now')
                   /\ StampedBetween(file'[RTS(m)], now, now')
                   /\ \A k \in Keys : k[1] # mgr[m].region => file'[k] = file[k]
          /\ (/\ \/ CallStep(m)
                 \/ last'.op = "construct" /\ last'.m = m
              /\ ~mgr'[m].save_token)
                => file' = file]_vars

\* C12 witness: a persisting manager has made a successful exchange that
\* replaced an older record of the store.
C12_Witness ==
    /\ IsCall(last) /\ last.ok
    /\ mgr[last.m].save_token
    /\ last.ret = <<Tok(2), Tok(2)>>
    /\ file[Key(mgr[last.m].region, "ACCESS_TOKEN")] = Quote(Tok(2))
    /\ file[Key(mgr[last.m].region, "REFRESH_TOKEN")] = Quote(Tok(2))

\* C13: a manager that does not persist keeps its tokens and their issuance
\* time in memory: after a successful exchange at xt, a get_tokens call
\* within access_ttl of xt returns the cached pair without a POST, and one
\* past access_ttl but within refresh_ttl makes a refresh grant and no
\* authorization-code grant.
C13_MemoryStateWithoutPersistence ==
    [][\A m \in Managers, code \in Codes :
          (GetTokensStep(m, code) /\ Obtained(m) /\ ~mgr[m].save_token)
          => /\ (now - mgr[m].xt < AccessTTL)
                   => /\ last'.posts = <<>>
                      /\ last'.ret = <<mgr[m].xat, mgr[m].xrt>>
             /\ (AccessTTL < now - mgr[m].xt /\ now - mgr[m].xt < RefreshTTL)
                   => /\ Len(last'.posts) = 1
                      /\ last'.posts[1].grant_type = "refresh_token"]_vars

\* C14: round trip through the store. The step constructs a manager right
\* after a persisted successful exchange of a manager of the same region and
\* store: the new manager holds the tokens that exchange persisted and the
\* process judges validity by the timestamps it persisted.
C14_RoundTrip ==
    [][\A m \in Managers, p \in Managers :
          (/\ IsCall(last) /\ last.m = p /\ last.ok /\ mgr[p].save_token
           /\ last'.op = "construct" /\ last'.m = m
           /\ mgr'[m].region = mgr[p].region)
          => /\ mgr'[m].access_token = mgr[p].access_token
             /\ mgr'[m].refresh_token = mgr[p].refresh_token
             /\ getenv(env', ATS(p)) = Unquote(file[ATS(p)])
             /\ getenv(env', RTS(p)) = Unquote(file[RTS(p)])]_vars

\* C15: in every reachable state a manager that obtained its tokens by an
\* exchange at xt judges each token valid iff now <= issued_at + ttl, where
\* issued_at is the time recorded during that exchange (xt, or one clock
\* unit earlier for the access token when the clock advanced during the
\* exchange); the instant now = issued_at + ttl counts as valid.
C15_ValidIffWithinTTL ==
    \A m \in Managers :
        Obtained(m)
        => /\ (now <= mgr[m].xt - 1 + AccessTTL) => AccessJudgedValid(m)
           /\ AccessJudgedValid(m) => (now <= mgr[m].xt + AccessTTL)
           /\ RefreshJudgedValid(m) <=> (now <= mgr[m].xt + RefreshTTL)

\* C16: a call makes a refresh grant only when the manager's refresh token
\* is present and the manager judges it unexpired; a get_refreshed_token
\* call made with the access token invalid in any other state fails and
\* sends nothing.
C16_RefreshOnlyWithValidRefreshToken ==
    [][\A m \in Managers :
          CallStep(m)
          => /\ (\E i \in 1 .. Len(last'.posts) :
                    last'.posts[i].grant_type = "refresh_token")
                   => /\ mgr[m].refresh_token # None
                      /\ RefreshJudgedValid(m)
             /\ (/\ GetRefreshedTokenStep(m)
                 /\ ~AccessJudgedValid(m)
                 /\ ~(mgr[m].refresh_token # None /\ RefreshJudgedValid(m)))
                   => last'.exc # "none" /\ last'.posts = <<>>]_vars

\* both token fields of the store are the ones manager m holds
StoreHoldsPairOf(m) ==
    /\ file[Key(mgr[m].region, "ACCESS_TOKEN")] = Quote(mgr[m].access_token)
    /\ file[Key(mgr[m].region, "REFRESH_TOKEN")] = Quote(mgr[m].refresh_token)

\* C17: once two persisting managers of the same region and store have both
\* finished a successful exchange, no field of the store is missing and the
\* token fields of the store come from one of the two exchanges: the store
\* never holds one manager's access token with the other's refresh token.
C17_LastWriterWins ==
    (\A m \in AllManagers :
        mgr[m].alive /\ mgr[m].saving = 0 /\ mgr[m].xt # -1)
    => /\ \A k \in Keys : k[1] = "us" => file[k] # None
       /\ \E m \in AllManagers : StoreHoldsPairOf(m)

\* the part of os.environ or of the store that belongs to region r
Own(e, r) == [k \in Keys |-> IF k[1] = r THEN e[k] ELSE None]

\* the step is the construction of manager m
ConstructStep(m) == last'.op = "construct" /\ last'.m = m

\* C18: regions coexist in one store. Every operation of a manager of
\* region r (construction, get_tokens, get_refreshed_token and the saving
\* they do) leaves the persisted fields of all other regions unchanged, and
\* reads nothing of them: the tokens a constructed manager holds and the
\* outcome of each call are what they would be with the other regions'
\* fields absent.
C18_RegionsIndependent ==
    [][\A m \in AllManagers :
          LET r == mgr'[m].region
              e == Own(env, r)
              f == Own(file, r)
          IN  /\ (CallStep(m) \/ ConstructStep(m))
                    => \A k \in Keys : k[1] # r => file'[k] = file[k]
              /\ ConstructStep(m)
                    => /\ mgr'[m].access_token
                             = getenv(Own(env', r), Key(r, "ACCESS_TOKEN"))
                       /\ mgr'[m].refresh_token
                             = getenv(Own(env', r), Key(r, "REFRESH_TOKEN"))
                       /\ Own(env', r) = load_dotenv(e, f)
              /\ \A code \in Codes :
                    GetTokensStep(m, code)
                    => LET c == get_tokens(mgr[m], e, f, code, last'.resp,
                                           now, 0, now' - now)
                       IN  /\ last'.posts = c.posts /\ last'.exc = c.exc
                           /\ last'.ret = c.ret
                           /\ Own(file', r) = c.file
              /\ GetRefreshedTokenStep(m)
                    => LET c == get_refreshed_token(mgr[m], e, f, last'.resp,
                                                    now, now' - now)
                       IN  /\ last'.posts = c.posts /\ last'.exc = c.exc
                           /\ last'.ret = c.ret
                           /\ Own(file', r) = c.file]_vars

\* C18 witness: a manager of "eu" has made a successful persisted exchange
\* while the store and os.environ held a different record for "us".
C18_Witness ==
    /\ IsCall(last) /\ last.ok
    /\ mgr[last.m].region = "eu"
    /\ file[Key("eu", "ACCESS_TOKEN")] = Quote(Tok(2))
    /\ file[Key("us", "ACCESS_TOKEN")] = Quote(Tok(1))
    /\ env[Key("us", "ACCESS_TOKEN_TIMESTAMP")] # None

\* the branch a get_tokens call of manager m takes when it finds os.environ
\* e at time t
Branch(m, e, t) ==
    IF _is_token_valid(e, mgr[m].region, t) THEN "cached"
    ELSE IF _is_refresh_token_valid(e, mgr[m].region, t) THEN "refresh"
    ELSE "new"

\* C19: the persisted state is read once, at construction. For a manager m
\* that has been constructed, no step made by anything else (another
\* manager's construction or call) changes the branch a get_tokens or
\* get_refreshed_token call of m takes at a given time.
C19_ReadOnceAtConstruction ==
    [][\A m \in AllManagers, o \in AllManagers :
          (m # o /\ mgr[m].alive /\ (CallStep(o) \/ ConstructStep(o)))
          => Branch(m, env', now') = Branch(m, env, now')]_vars

\* C20: no operation of a constructed manager modifies the process
\* environment: every step other than a construction or the end of the
\* process leaves os.environ as it was, so the timestamps the two predicates
\* read are those present when construction finished, and a call (a
\* successful exchange and its saving included) changes the result of
\* neither predicate at any clock value.
C20_CallsLeaveEnvironment ==
    [][/\ last'.op \notin {"construct", "restart"} => env' = env
       /\ \A m \in AllManagers :
             CallStep(m)
             => \A t \in 0 .. MaxTime :
                   /\ _is_token_valid(env', mgr[m].region, t)
                         = _is_token_valid(env, mgr[m].region, t)
                   /\ _is_refresh_token_valid(env', mgr[m].region, t)
                         = _is_refresh_token_valid(env, mgr[m].region, t)]_vars

\* C20 witness: a successful persisted exchange has put new timestamps in
\* the store while os.environ still holds the older ones loaded at
\* construction.
C20_Witness ==
    /\ IsCall(last) /\ last.ok
    /\ mgr[last.m].save_token
    /\ env[ATS(last.m)] # None
    /\ file[ATS(last.m)] # Quote(env[ATS(last.m)])
    /\ file[RTS(last.m)] # Quote(env[RTS(last.m)])

\* C21: whenever get_tokens or get_refreshed_token has returned normally,
\* the value returned holds an access token and a refresh token, neither of
\* them null, and they are the tokens the manager holds at return.
C21_ReturnedPairIsHeld ==
    (IsCall(last) /\ last.exc = "none")
    => /\ Len(last.ret) = 2
       /\ last.ret[1] # None
       /\ last.ret[2] # None
       /\ last.ret = <<mgr[last.m].access_token, mgr[last.m].refresh_token>>

\* the timestamps kept under the keys of region r in e (the store, with its
\* quoting removed, or os.environ) are in order: an access timestamp comes
\* with a refresh timestamp that is not earlier
StampsInOrder(e, r) ==
    LET a == e[Key(r, "ACCESS_TOKEN_TIMESTAMP")]
        b == e[Key(r, "REFRESH_TOKEN_TIMESTAMP")]
    IN  a # None => (b # None /\ fromisoformat(a) <= fromisoformat(b))

\* the state of the state machine manager m is in, by its own predicates
TokenState(m) ==
    IF AccessJudgedValid(m) /\ RefreshJudgedValid(m) THEN "ACCESS_VALID"
    ELSE IF AccessJudgedValid(m) THEN "ACCESS_VALID_REFRESH_EXPIRED"
    ELSE IF RefreshJudgedValid(m) THEN "ACCESS_EXPIRED_REFRESH_VALID"
    ELSE IF mgr[m].access_token = None /\ mgr[m].refresh_token = None
    THEN "NO_TOKEN"
    ELSE "REFRESH_EXPIRED"

\* C22: with refresh_ttl >= access_ttl, in every state reached from an empty
\* store by constructions and completed exchanges, a manager that judges
\* its access token valid judges its refresh token valid too; the persisted
\* refresh timestamp of a region is never earlier than its persisted access
\* timestamp, and the same holds for the copies in os.environ; so every
\* manager is in one of the four states of the state machine.
C22_AccessValidImpliesRefreshValid ==
    /\ RefreshTTL >= AccessTTL
    /\ \A r \in AllRegions :
          /\ StampsInOrder([k \in Keys |-> IF file[k] = None THEN None
                                           ELSE Unquote(file[k])], r)
          /\ StampsInOrder(env, r)
    /\ \A m \in AllManagers :
          mgr[m].alive
          => /\ AccessJudgedValid(m) => RefreshJudgedValid(m)
             /\ TokenState(m) \in {"NO_TOKEN", "ACCESS_VALID",
                                   "ACCESS_EXPIRED_REFRESH_VALID",
                                   "REFRESH_EXPIRED"}

\* C22 witness: a manager judges its access token valid by timestamps that
\* a completed exchange persisted while the clock advanced between the two
\* readings of datetime.now().
C22_Witness ==
    \E m \in Managers :
        /\ mgr[m].alive
        /\ AccessJudgedValid(m)
        /\ fromisoformat(env[ATS(m)]) < fromisoformat(env[RTS(m)])

\* C23: a get_tokens call that is given an authorization code never raises
\* TokenError, even when the clock advances during the call and the refresh
\* token expires between the check of get_tokens and the one repeated by
\* get_refreshed_token.
C23_CodeNeverGivesTokenError ==
    [][\A m \in Managers, code \in Codes \ {None} :
          GetTokensStep(m, code) => last'.exc # "TokenError"]_vars

====
